---- MODULE Spec2Model ----
(***************************************************************************)
(* Model of the university-admission chatbot engine in its two variants:   *)
(*   simple    src/chatbot.py                                              *)
(*   threaded  src/university-admission-chatbot/chatbot.py                 *)
(* A Python str that the code inspects (a query, a file name) is a         *)
(* sequence of one-character strings; a response text is a sequence of     *)
(* text pieces, so that concatenation, join and strip are computed.        *)
(***************************************************************************)
EXTENDS Integers, Sequences, FiniteSets, TLC

VARIABLES
    env,              \* name of the environment of the run: its callers and inputs
    variant,          \* which of the two source files is running
    admission_data,   \* which knowledge base the constructor stored in self.admission_data
    user_sessions,    \* self.user_sessions: user id -> session dict
    pc,               \* position of the caller of get_response
    call,             \* arguments and locals of the get_response in progress
    thread,           \* state of processing_thread
    result_queue,     \* the queue.Queue shared by caller and thread
    elapsed,          \* seconds since the caller started waiting
    calls,            \* history: per user, the queries passed to get_response
    nOps,             \* history: number of operations started
    uploads,          \* history: per user, the number of uploads acknowledged as received
    last              \* history: the last completed operation and its outcome

vars ==
    << env, variant, admission_data, user_sessions, pc, call, thread,
       result_queue, elapsed, calls, nOps, uploads, last >>

-----------------------------------------------------------------------------
(* Bounds of the model *)

MaxOps ==
    4

MaxLate ==
    1

MaxNameLen ==
    4

MaxPairOps ==
    3

MaxWords ==
    2

MaxTalkOps ==
    2

-----------------------------------------------------------------------------
(* Python str operations on sequences of characters *)

UpperCase ==
    <<"A", "B", "C", "D", "E", "F", "G", "H", "I", "J", "K", "L", "M",
      "N", "O", "P", "Q", "R", "S", "T", "U", "V", "W", "X", "Y", "Z">>

LowerCase ==
    <<"a", "b", "c", "d", "e", "f", "g", "h", "i", "j", "k", "l", "m",
      "n", "o", "p", "q", "r", "s", "t", "u", "v", "w", "x", "y", "z">>

\* str.lower() on one character
LowerChar(c) ==
    IF \E i \in 1..26 : UpperCase[i] = c
    THEN LowerCase[CHOOSE i \in 1..26 : UpperCase[i] = c]
    ELSE c

\* str.lower()
lower(s) ==
    [i \in 1..Len(s) |-> LowerChar(s[i])]

\* k in s, for strings
Contains(s, k) ==
    \E i \in 0..(Len(s) - Len(k)) :
        \A j \in 1..Len(k) : s[i + j] = k[j]

\* x in xs, for a list
InList(x, xs) ==
    \E i \in 1..Len(xs) : xs[i] = x

\* position of the last occurrence of character c in s, 0 when absent
LastIndexOf(s, c) ==
    IF \E i \in 1..Len(s) : s[i] = c
    THEN CHOOSE i \in 1..Len(s) :
             s[i] = c /\ \A j \in (i + 1)..Len(s) : s[j] # c
    ELSE 0

\* sep.join(parts) for a list of texts
RECURSIVE Join(_, _)
Join(sep, parts) ==
    IF parts = <<>> THEN <<>>
    ELSE IF Len(parts) = 1 THEN parts[1]
    ELSE parts[1] \o sep \o Join(sep, Tail(parts))

\* the tokenizer capability: the words of a lower-cased text, split at blanks
RECURSIVE Tokenize(_)
Tokenize(text) ==
    IF text = <<>> THEN <<>>
    ELSE IF text[1] = " " THEN Tokenize(Tail(text))
    ELSE LET n == IF \E i \in 1..Len(text) : text[i] = " "
                  THEN (CHOOSE i \in 1..Len(text) :
                            text[i] = " " /\ \A j \in 1..(i - 1) : text[j] # " ") - 1
                  ELSE Len(text)
         IN  <<SubSeq(text, 1, n)>> \o Tokenize(SubSeq(text, n + 1, Len(text)))

-----------------------------------------------------------------------------
(* analyze_query: the intent and program classifier *)

deadline_keywords ==
    << <<"d", "e", "a", "d", "l", "i", "n", "e">>,
       <<"d", "u", "e">>,
       <<"w", "h", "e", "n">>,
       <<"l", "a", "s", "t", " ", "d", "a", "t", "e">>,
       <<"c", "u", "t", "o", "f", "f">>,
       <<"c", "l", "o", "s", "e">>,
       <<"f", "i", "n", "a", "l", " ", "d", "a", "t", "e">> >>

documents_keywords ==
    << <<"d", "o", "c", "u", "m", "e", "n", "t">>,
       <<"p", "a", "p", "e", "r", "w", "o", "r", "k">>,
       <<"r", "e", "q", "u", "i", "r", "e", "d">>,
       <<"n", "e", "e", "d">>,
       <<"s", "u", "b", "m", "i", "t">>,
       <<"u", "p", "l", "o", "a", "d">>,
       <<"f", "i", "l", "e">>,
       <<"t", "r", "a", "n", "s", "c", "r", "i", "p", "t">>,
       <<"c", "v">>,
       <<"r", "e", "s", "u", "m", "e">>,
       <<"c", "e", "r", "t", "i", "f", "i", "c", "a", "t", "e">> >>

fees_keywords ==
    << <<"f", "e", "e">>,
       <<"p", "a", "y", "m", "e", "n", "t">>,
       <<"c", "o", "s", "t">>,
       <<"p", "r", "i", "c", "e">>,
       <<"c", "h", "a", "r", "g", "e">>,
       <<"t", "u", "i", "t", "i", "o", "n">>,
       <<"d", "e", "p", "o", "s", "i", "t">> >>

status_keywords ==
    << <<"s", "t", "a", "t", "u", "s">>,
       <<"p", "r", "o", "g", "r", "e", "s", "s">>,
       <<"c", "h", "e", "c", "k">>,
       <<"r", "e", "v", "i", "e", "w">>,
       <<"d", "e", "c", "i", "s", "i", "o", "n">>,
       <<"u", "p", "d", "a", "t", "e">>,
       <<"t", "r", "a", "c", "k">> >>

help_keywords ==
    << <<"h", "e", "l", "p">>,
       <<"a", "s", "s", "i", "s", "t", "a", "n", "c", "e">>,
       <<"s", "u", "p", "p", "o", "r", "t">>,
       <<"g", "u", "i", "d", "e">>,
       <<"e", "x", "p", "l", "a", "i", "n">>,
       <<"h", "o", "w", " ", "t", "o">>,
       <<"w", "h", "a", "t", " ", "i", "s">> >>

greeting_keywords ==
    << <<"h", "e", "l", "l", "o">>,
       <<"h", "i">>,
       <<"h", "e", "y">>,
       <<"g", "r", "e", "e", "t", "i", "n", "g", "s">>,
       <<"g", "o", "o", "d", " ", "m", "o", "r", "n", "i", "n", "g">>,
       <<"g", "o", "o", "d", " ", "a", "f", "t", "e", "r", "n", "o", "o", "n">> >>

upload_keywords ==
    << <<"u", "p", "l", "o", "a", "d">>,
       <<"s", "e", "n", "d">>,
       <<"s", "u", "b", "m", "i", "t">>,
       <<"a", "t", "t", "a", "c", "h">>,
       <<"p", "r", "o", "v", "i", "d", "e">> >>

contact_keywords ==
    << <<"c", "o", "n", "t", "a", "c", "t">>,
       <<"e", "m", "a", "i", "l">>,
       <<"p", "h", "o", "n", "e">>,
       <<"n", "u", "m", "b", "e", "r">>,
       <<"a", "d", "d", "r", "e", "s", "s">>,
       <<"r", "e", "a", "c", "h">> >>

undergraduate_program_keywords ==
    << <<"u", "n", "d", "e", "r", "g", "r", "a", "d">>,
       <<"b", "a", "c", "h", "e", "l", "o", "r">>,
       <<"u", "n", "d", "e", "r", "g", "r", "a", "d", "u", "a", "t", "e">>,
       <<"c", "o", "l", "l", "e", "g", "e">> >>

graduate_program_keywords ==
    << <<"g", "r", "a", "d", "u", "a", "t", "e">>,
       <<"m", "a", "s", "t", "e", "r">>,
       <<"m", "a", "s", "t", "e", "r", "s">>,
       <<"m", "s">>,
       <<"m", "b", "a">> >>

phd_program_keywords ==
    << <<"p", "h", "d">>,
       <<"d", "o", "c", "t", "o", "r", "a", "t", "e">>,
       <<"d", "o", "c", "t", "o", "r", "a", "l">> >>

scholarship_program_keywords ==
    << <<"s", "c", "h", "o", "l", "a", "r", "s", "h", "i", "p">>,
       <<"f", "i", "n", "a", "n", "c", "i", "a", "l", " ", "a", "i", "d">>,
       <<"g", "r", "a", "n", "t">> >>

\* the keyword table in its scan order
intent_keywords ==
    << [intent |-> "deadline",  keywords |-> deadline_keywords],
       [intent |-> "documents", keywords |-> documents_keywords],
       [intent |-> "fees",      keywords |-> fees_keywords],
       [intent |-> "status",    keywords |-> status_keywords],
       [intent |-> "help",      keywords |-> help_keywords],
       [intent |-> "greeting",  keywords |-> greeting_keywords],
       [intent |-> "upload",    keywords |-> upload_keywords],
       [intent |-> "contact",   keywords |-> contact_keywords] >>

program_types ==
    << [program |-> "undergraduate", keywords |-> undergraduate_program_keywords],
       [program |-> "graduate",      keywords |-> graduate_program_keywords],
       [program |-> "phd",           keywords |-> phd_program_keywords],
       [program |-> "scholarship",   keywords |-> scholarship_program_keywords] >>

EmptyAnalysis ==
    [intents |-> <<>>, programs |-> <<>>]

\* the intent test matching a keyword anywhere inside a token
TokenHit_substring(doc, keywords) ==
    \E i \in 1..Len(doc), j \in 1..Len(keywords) : Contains(doc[i], keywords[j])

\* any(token.text in keywords for token in doc)
TokenHit(doc, keywords) ==
    \E i \in 1..Len(doc) : InList(doc[i], keywords)

\* the program test matching whole tokens only
SubstringHit_tokens(text, keywords) ==
    \E i \in 1..Len(Tokenize(text)) : InList(Tokenize(text)[i], keywords)

\* any(keyword in query.lower() for keyword in keywords)
SubstringHit(text, keywords) ==
    \E i \in 1..Len(keywords) : Contains(text, keywords[i])

\* the classifier keeping only the first intent that matches
Classify_first_intent(query) ==
    LET doc   == Tokenize(lower(query))
        found == SelectSeq(intent_keywords,
                           LAMBDA e : TokenHit(doc, e.keywords))
        progs == SelectSeq(program_types,
                           LAMBDA e : SubstringHit(lower(query), e.keywords))
    IN  [intents  |-> IF found = <<>> THEN <<>> ELSE <<found[1].intent>>,
         programs |-> [i \in 1..Len(progs) |-> progs[i].program]]

\* the body of analyze_query once nlp(query.lower()) has returned doc
Classify(query) ==
    LET doc   == Tokenize(lower(query))
        found == SelectSeq(intent_keywords,
                           LAMBDA e : TokenHit(doc, e.keywords))
        progs == SelectSeq(program_types,
                           LAMBDA e : SubstringHit(lower(query), e.keywords))
    IN  [intents  |-> [i \in 1..Len(found) |-> found[i].intent],
         programs |-> [i \in 1..Len(progs) |-> progs[i].program]]

-----------------------------------------------------------------------------
(* The knowledge base *)

Programs ==
    {"undergraduate", "graduate", "phd", "scholarship"}

\* the date strings that "%Y-%m-%d" parses: day ordinal and '%B %d, %Y' text
Calendar ==
    [d \in {"2023-12-15", "2023-11-30", "2023-10-31", "2023-09-15",
            "2024-12-15", "2024-11-30", "2024-10-31", "2024-09-15"} |->
        CASE d = "2023-12-15" -> [ordinal |-> 738869, text |-> "December 15, 2023"]
          [] d = "2023-11-30" -> [ordinal |-> 738854, text |-> "November 30, 2023"]
          [] d = "2023-10-31" -> [ordinal |-> 738824, text |-> "October 31, 2023"]
          [] d = "2023-09-15" -> [ordinal |-> 738778, text |-> "September 15, 2023"]
          [] d = "2024-12-15" -> [ordinal |-> 739235, text |-> "December 15, 2024"]
          [] d = "2024-11-30" -> [ordinal |-> 739220, text |-> "November 30, 2024"]
          [] d = "2024-10-31" -> [ordinal |-> 739190, text |-> "October 31, 2024"]
          [] d = "2024-09-15" -> [ordinal |-> 739144, text |-> "September 15, 2024"]]

default_documents ==
    [p \in {"undergraduate", "graduate", "phd"} |->
        CASE p = "undergraduate" ->
                 <<"High school transcripts", "Standardized test scores",
                   "Personal statement", "Letters of recommendation">>
          [] p = "graduate" ->
                 <<"Bachelor's degree transcripts", "GRE/GMAT scores",
                   "Statement of purpose", "Letters of recommendation">>
          [] p = "phd" ->
                 <<"Master's degree transcripts", "Research proposal",
                   "Publications (if any)", "Letters of recommendation">>]

default_fees ==
    [p \in {"undergraduate", "graduate", "phd"} |->
        CASE p = "undergraduate" -> [application_fee |-> 50, tuition_deposit |-> 500]
          [] p = "graduate" -> [application_fee |-> 75, tuition_deposit |-> 750]
          [] p = "phd" -> [application_fee |-> 100, tuition_deposit |-> 0]]

\* the faqs dict in insertion order; a topic key is a string of characters
default_faqs ==
    << [topic  |-> <<"a", "p", "p", "l", "i", "c", "a", "t", "i", "o", "n", "_",
                     "p", "r", "o", "c", "e", "s", "s">>,
        answer |-> "The application process involves submitting an online form, required documents, and paying the application fee. You'll receive a confirmation email once submitted."],
       [topic  |-> <<"v", "i", "s", "a", "_", "r", "e", "q", "u", "i", "r", "e",
                     "m", "e", "n", "t", "s">>,
        answer |-> "International students need to provide proof of financial support, acceptance letter, and valid passport to apply for a student visa."],
       [topic  |-> <<"h", "o", "u", "s", "i", "n", "g", "_", "o", "p", "t", "i",
                     "o", "n", "s">>,
        answer |-> "We offer on-campus dormitories and can provide information about off-campus housing options."],
       [topic  |-> <<"c", "o", "n", "t", "a", "c", "t">>,
        answer |-> "You can reach the admissions office at admissions@university.edu or call +1 (555) 123-4567."],
       [topic  |-> <<"u", "p", "l", "o", "a", "d", "_", "h", "e", "l", "p">>,
        answer |-> "You can upload documents through our portal after creating an account. Accepted formats are PDF, JPG, and PNG."] >>

\* the built-in knowledge base of each variant
default_data(v) ==
    [deadlines |->
        IF v = "simple"
        THEN [p \in Programs |->
                 CASE p = "undergraduate" -> "2023-12-15"
                   [] p = "graduate" -> "2023-11-30"
                   [] p = "phd" -> "2023-10-31"
                   [] p = "scholarship" -> "2023-09-15"]
        ELSE [p \in Programs |->
                 CASE p = "undergraduate" -> "2024-12-15"
                   [] p = "graduate" -> "2024-11-30"
                   [] p = "phd" -> "2024-10-31"
                   [] p = "scholarship" -> "2024-09-15"],
     documents |-> default_documents,
     fees      |-> default_fees,
     faqs      |-> default_faqs]

\* a well-formed admission_data.json whose phd deadline is not an ISO date
\* and which has no contact entry
LoadedData ==
    [deadlines |-> [p \in {"undergraduate", "phd"} |->
                       IF p = "phd" THEN "31/10/2024" ELSE "2024-12-15"],
     documents |-> default_documents,
     fees      |-> default_fees,
     faqs      |-> SubSeq(default_faqs, 1, 3)]

\* what open('admission_data.json') and json.load can meet
DataFiles ==
    {"absent", "unreadable", "unparseable", "valid"}

\* load_admission_data: which knowledge base it returns (the built-in one
\* or the content of the file), or the exception raised
load_admission_data(v, file) ==
    IF v = "simple"
    THEN CASE file = "absent" -> [raised |-> FALSE, value |-> "default_data"]
           [] file = "valid" -> [raised |-> FALSE, value |-> "json"]
           [] file = "unreadable" -> [raised |-> TRUE, value |-> "OSError"]
           [] file = "unparseable" -> [raised |-> TRUE, value |-> "JSONDecodeError"]
    ELSE CASE file = "absent" -> [raised |-> FALSE, value |-> "default_data"]
           [] file = "valid" -> [raised |-> FALSE, value |-> "json"]
           [] file = "unreadable" -> [raised |-> FALSE, value |-> "default_data"]
           [] file = "unparseable" -> [raised |-> FALSE, value |-> "default_data"]

\* the content of the knowledge base that load_admission_data returned
KnowledgeBase(v, loaded) ==
    IF loaded = "json" THEN LoadedData ELSE default_data(v)

-----------------------------------------------------------------------------
(* The fixed texts *)

greeting ==
    << <<"Hello! Welcome to University Admission Assistant. How can I help you today?">>,
       <<"Hi there! I'm here to help with your university admission questions.">>,
       <<"Welcome! Ask me anything about university admissions.">> >>

fallback ==
    << <<"I'm sorry, I didn't understand that. I can help with admission deadlines, required documents, fees, and application status.">>,
       <<"Could you rephrase that? I specialize in university admission queries.">>,
       <<"I'm not sure I follow. I can assist with admission-related questions.">> >>

timeout ==
    << <<"I'm still processing your request. Please wait a moment while I gather the information.">>,
       <<"I'm working on your question and will respond shortly.">>,
       <<"Just a moment while I retrieve the information you requested.">> >>

upload_help(v) ==
    IF v = "simple"
    THEN <<"You can upload documents like transcripts, recommendation letters, or your CV using the file uploader below.">>
    ELSE <<"You can upload documents like transcripts, recommendation letters, or your CV by clicking the 'Upload File' button.">>

file_types ==
    <<"I accept PDF, JPG, and PNG files for uploads.">>

ErrorResponse ==
    <<"I encountered an error processing your request. Please try again.">>

UploadErrorResponse ==
    <<"I encountered an error processing your upload.">>

InvalidFileResponse ==
    <<"Invalid file type. Please upload PDF, JPG, or PNG files.">>

UploadedResponse(filename) ==
    <<"Document '">> \o filename \o <<"' uploaded successfully! We'll process it shortly.">>

\* the members of a pool of texts
Pool(texts) ==
    {texts[i] : i \in 1..Len(texts)}

-----------------------------------------------------------------------------
(* The response handlers.  A handler body yields [raised, value]: the text *)
(* it returns, or the exception that leaves it.                            *)

Returned(text) ==
    [raised |-> FALSE, value |-> text]

Raised(exception) ==
    [raised |-> TRUE, value |-> <<exception>>]

\* datetime.strptime(s, "%Y-%m-%d") succeeds
Parses(s) ==
    s \in DOMAIN Calendar

\* (deadline - datetime.now()).days: timedelta.days is the floor of the
\* difference in days, the deadline being at 00:00 and now at now.hour
DaysLeft(deadline, now) ==
    (deadline.ordinal * 24 - (now.ordinal * 24 + now.hour)) \div 24

DeadlineLine(data, program, now) ==
    IF program \in DOMAIN data.deadlines
    THEN LET deadline == Calendar[data.deadlines[program]]
         IN  <<"The application deadline for ", program, " program is ",
               deadline.text, ". ", "That's ",
               ToString(DaysLeft(deadline, now)), " days from today.">>
    ELSE <<"I don't have deadline information for ", program, " program.">>

\* the body of handle_deadline_query
deadline_body(data, detected_programs, now) ==
    IF detected_programs = <<>>
    THEN Returned(<<"Which program deadline are you interested in? (undergraduate/graduate/phd/scholarship)">>)
    ELSE IF \E i \in 1..Len(detected_programs) :
                /\ detected_programs[i] \in DOMAIN data.deadlines
                /\ ~Parses(data.deadlines[detected_programs[i]])
         THEN Raised("ValueError")
         ELSE Returned(Join(<<"\n">>,
                  [i \in 1..Len(detected_programs) |->
                      DeadlineLine(data, detected_programs[i], now)]))

DocumentsBlock(data, program) ==
    IF program \in DOMAIN data.documents
    THEN <<"Required documents for ", program, " program:", "\n", "- ">>
         \o Join(<<"\n", "- ">>,
                 [i \in 1..Len(data.documents[program]) |->
                     <<data.documents[program][i]>>])
    ELSE <<"I don't have document requirements for ", program, " program.">>

\* the body of handle_documents_query
documents_body(data, detected_programs) ==
    IF detected_programs = <<>>
    THEN Returned(<<"Which program documents are you asking about? (undergraduate/graduate/phd)">>)
    ELSE Returned(Join(<<"\n\n">>,
             [i \in 1..Len(detected_programs) |->
                 DocumentsBlock(data, detected_programs[i])]))

FeesBlock(data, program) ==
    IF program \in DOMAIN data.fees
    THEN <<"Fee structure for ", program, " program:", "\n",
           "- Application fee: $",
           ToString(data.fees[program].application_fee), "\n",
           "- Tuition deposit (if admitted): $",
           ToString(data.fees[program].tuition_deposit)>>
    ELSE <<"I don't have fee information for ", program, " program.">>

\* the body of handle_fees_query
fees_body(data, detected_programs) ==
    IF detected_programs = <<>>
    THEN Returned(<<"Which program fees are you asking about? (undergraduate/graduate/phd)">>)
    ELSE Returned(Join(<<"\n\n">>,
             [i \in 1..Len(detected_programs) |->
                 FeesBlock(data, detected_programs[i])]))

\* the body of handle_status_query
\* the status handler counting the documents of any existing session
status_body_any_session(sessions, user_id) ==
    IF user_id \in DOMAIN sessions
    THEN Returned(<<"Your application is being processed. We've received ",
                    ToString(IF "documents" \in DOMAIN sessions[user_id]
                             THEN Len(sessions[user_id]["documents"]) ELSE 0),
                    " documents from you.">>)
    ELSE Returned(<<"Your application is currently under review. We'll notify you when there's an update.">>)

status_body(sessions, user_id) ==
    IF user_id \in DOMAIN sessions /\ "documents" \in DOMAIN sessions[user_id]
    THEN Returned(<<"Your application is being processed. We've received ",
                    ToString(Len(sessions[user_id]["documents"])),
                    " documents from you.">>)
    ELSE Returned(<<"Your application is currently under review. We'll notify you when there's an update.">>)

\* topic.replace('_', ' ').title()
TopicTitle(topic) ==
    LET spaced == [i \in 1..Len(topic) |-> IF topic[i] = "_" THEN " " ELSE topic[i]]
        IsLetter(c) == \E k \in 1..26 : c = LowerCase[k] \/ c = UpperCase[k]
        Upper(c) == IF \E k \in 1..26 : LowerCase[k] = c
                    THEN UpperCase[CHOOSE k \in 1..26 : LowerCase[k] = c]
                    ELSE c
    IN  [i \in 1..Len(spaced) |->
            IF i = 1 \/ ~IsLetter(spaced[i - 1])
            THEN Upper(spaced[i])
            ELSE LowerChar(spaced[i])]

\* the body of handle_help_query
help_body(v, data, query) ==
    IF \/ Contains(lower(query), <<"u", "p", "l", "o", "a", "d">>)
       \/ Contains(lower(query), <<"f", "i", "l", "e">>)
    THEN Returned(upload_help(v) \o <<" ">> \o file_types)
    ELSE Returned(<<"I can help with:", "\n">>
                  \o Join(<<"\n">>,
                          [i \in 1..Len(data.faqs) |->
                              <<"- ">> \o TopicTitle(data.faqs[i].topic)])
                  \o <<"\n\n", "Please ask about any specific topic.">>)

\* the body of handle_upload_query
upload_body(v) ==
    Returned(upload_help(v) \o <<" ">> \o file_types)

\* the body of handle_contact_query: faqs.get('contact', <fixed text>)
contact_body(data) ==
    LET key == <<"c", "o", "n", "t", "a", "c", "t">>
    IN  IF \E i \in 1..Len(data.faqs) : data.faqs[i].topic = key
        THEN Returned(<<data.faqs[CHOOSE i \in 1..Len(data.faqs) :
                                      data.faqs[i].topic = key].answer>>)
        ELSE Returned(<<"You can contact the admissions office at admissions@university.edu">>)

\* the try/except of a handler of the threaded variant
Guarded(result, apology) ==
    IF result.raised THEN Returned(<<apology>>) ELSE result

-----------------------------------------------------------------------------
(* Composition of a response *)

\* whether nlp(...) returns or raises in a call
NlpOutcomes ==
    {"ok", "error"}

\* analyze_query of each variant
analyze_query(v, query, nlp) ==
    IF nlp = "ok" THEN Returned(Classify(query))
    ELSE IF v = "threaded" THEN Returned(EmptyAnalysis)
    ELSE Raised("NlpError")

Whitespace ==
    {" ", "\n", "\n\n"}

\* str.strip(), on the pieces of a text
RECURSIVE strip(_)
strip(text) ==
    IF text = <<>> THEN <<>>
    ELSE IF text[1] \in Whitespace THEN strip(Tail(text))
    ELSE IF text[Len(text)] \in Whitespace
         THEN strip(SubSeq(text, 1, Len(text) - 1))
    ELSE text

\* the programs prompt with the programs joined by a bare comma
ProgramsPrompt_comma(programs) ==
    <<"I can help with information about ">>
    \o Join(<<",">>, [i \in 1..Len(programs) |-> <<programs[i]>>])
    \o <<" programs. ", "Would you like to know about deadlines, required documents, or fees?">>

ProgramsPrompt(programs) ==
    <<"I can help with information about ">>
    \o Join(<<", ">>, [i \in 1..Len(programs) |-> <<programs[i]>>])
    \o <<" programs. ", "Would you like to know about deadlines, required documents, or fees?">>

\* simple variant: one arm of the if/elif chain of get_response
SimpleHandler(intent, data, sessions, user_id, query, programs, now) ==
    CASE intent = "deadline"  -> deadline_body(data, programs, now)
      [] intent = "documents" -> documents_body(data, programs)
      [] intent = "fees"      -> fees_body(data, programs)
      [] intent = "status"    -> status_body(sessions, user_id)
      [] intent = "help"      -> help_body("simple", data, query)
      [] intent = "upload"    -> upload_body("simple")
      [] intent = "contact"   -> contact_body(data)
      [] OTHER                -> Returned(<<>>)

\* simple variant: the loop "response += handler(...) + '\n\n'"
RECURSIVE SimpleLoop(_, _, _, _, _, _, _)
SimpleLoop(intents, data, sessions, user_id, query, programs, now) ==
    IF intents = <<>> THEN Returned(<<>>)
    ELSE LET this == SimpleHandler(intents[1], data, sessions, user_id,
                                   query, programs, now)
             rest == SimpleLoop(Tail(intents), data, sessions, user_id,
                                query, programs, now)
         IN  IF this.raised THEN this
             ELSE IF rest.raised THEN rest
             ELSE IF intents[1] = "greeting" THEN rest
             ELSE Returned(this.value \o <<"\n\n">> \o rest.value)

\* threaded variant: handler(...) as _process_query_thread calls it.
\* upload and contact take no argument and are called with user_id.
ThreadedHandler(intent, data, sessions, user_id, query, programs, now) ==
    CASE intent = "deadline" ->
             Guarded(deadline_body(data, programs, now),
                     "I encountered an error while checking deadlines.")
      [] intent = "documents" ->
             Guarded(documents_body(data, programs),
                     "I encountered an error while checking document requirements.")
      [] intent = "fees" ->
             Guarded(fees_body(data, programs),
                     "I encountered an error while checking fee information.")
      [] intent = "help" ->
             Guarded(help_body("threaded", data, query),
                     "I encountered an error while preparing help information.")
      [] intent = "status" ->
             Guarded(status_body(sessions, user_id),
                     "I encountered an error while checking your application status.")
      [] intent = "upload"  -> Raised("TypeError")
      [] intent = "contact" -> Raised("TypeError")
      [] OTHER -> Returned(<<>>)

\* threaded variant: the loop "response.append(handler(...))"; the list of
\* handler outputs, or the exception that leaves the loop
RECURSIVE ThreadedLoop(_, _, _, _, _, _, _)
ThreadedLoop(intents, data, sessions, user_id, query, programs, now) ==
    IF intents = <<>> THEN [raised |-> FALSE, value |-> <<>>]
    ELSE LET this == ThreadedHandler(intents[1], data, sessions, user_id,
                                     query, programs, now)
             rest == ThreadedLoop(Tail(intents), data, sessions, user_id,
                                  query, programs, now)
         IN  IF this.raised THEN this
             ELSE IF rest.raised THEN rest
             ELSE IF intents[1] = "greeting" THEN rest
             ELSE [raised |-> FALSE, value |-> <<this.value>> \o rest.value]

\* "\n\n".join(filter(None, response))
JoinNonEmpty(response) ==
    Join(<<"\n\n">>, SelectSeq(response, LAMBDA part : part # <<>>))

-----------------------------------------------------------------------------
(* The session store: user_sessions maps a user id to a dict that has the  *)
(* keys the code has put into it, among 'messages' and 'documents'.        *)

NoSessions ==
    [u \in {} |-> <<>>]

\* {key: []}
NewSession(key) ==
    [k \in {key} |-> <<>>]

\* the store keeping one session dict that every user id refers to
Store_shared(sessions, user_id, session) ==
    [u \in DOMAIN sessions \cup {user_id} |-> session]

\* sessions[user_id] = session
Store(sessions, user_id, session) ==
    [u \in DOMAIN sessions \cup {user_id} |->
        IF u = user_id THEN session ELSE sessions[u]]

\* the append inserting at the front of the list
AppendTo_front(sessions, user_id, key, item) ==
    Store(sessions, user_id,
          [sessions[user_id] EXCEPT ![key] = <<item>> \o @])

\* sessions[user_id][key].append(item), both lookups succeeding
AppendTo(sessions, user_id, key, item) ==
    Store(sessions, user_id,
          [sessions[user_id] EXCEPT ![key] = Append(@, item)])

\* sessions.get(user_id, {}).get('messages', [])
MessagesOf(sessions, user_id) ==
    IF user_id \in DOMAIN sessions /\ "messages" \in DOMAIN sessions[user_id]
    THEN sessions[user_id]["messages"]
    ELSE <<>>

\* sessions.get(user_id, {}).get('documents', [])
DocumentsOf(sessions, user_id) ==
    IF user_id \in DOMAIN sessions /\ "documents" \in DOMAIN sessions[user_id]
    THEN sessions[user_id]["documents"]
    ELSE <<>>

\* simple variant: log_interaction
log_interaction(sessions, user_id, query) ==
    LET created == IF user_id \notin DOMAIN sessions
                   THEN Store(sessions, user_id, NewSession("messages"))
                   ELSE sessions
    IN  IF "messages" \in DOMAIN created[user_id]
        THEN [raised |-> FALSE,
              sessions |-> AppendTo(created, user_id, "messages", query)]
        ELSE [raised |-> TRUE, sessions |-> created]

\* threaded variant: the session set-up at the start of get_response
EnsureSession(sessions, user_id) ==
    IF user_id \notin DOMAIN sessions
    THEN Store(sessions, user_id, NewSession("messages"))
    ELSE sessions

\* threaded variant: self.user_sessions[user_id]['messages'].append(query)
RecordMessage(sessions, user_id, query) ==
    AppendTo(sessions, user_id, "messages", query)

\* simple variant: len(messages) > 2 decides, after log_interaction
SimpleInitialGreeting(sessions, user_id) ==
    ~(Len(MessagesOf(sessions, user_id)) > 2)

\* threaded variant: message_count <= 2, before the message is recorded
ThreadedInitialGreeting(sessions, user_id) ==
    Len(sessions[user_id]["messages"]) <= 2

\* analysis['programs'] of a call, empty when analyze_query raised
DetectedPrograms(v, query, nlp) ==
    LET analysis == analyze_query(v, query, nlp)
    IN  IF analysis.raised THEN <<>> ELSE analysis.value.programs

\* the outcome of a whole get_response call
Outcome(sessions, raised, resp, branch, intents) ==
    [sessions |-> sessions, raised |-> raised, resp |-> resp,
     branch |-> branch, intents |-> intents]

\* simple variant: get_response
get_response_simple(data, sessions, user_id, query, nlp, now, pick) ==
    LET logged   == log_interaction(sessions, user_id, query)
        store    == logged.sessions
        initial  == SimpleInitialGreeting(store, user_id)
        analysis == analyze_query("simple", query, nlp)
        intents  == analysis.value.intents
        programs == analysis.value.programs
        loop     == SimpleLoop(intents, data, store, user_id, query, programs, now)
        response == IF loop.value = <<>> /\ programs # <<>>
                    THEN ProgramsPrompt(programs)
                    ELSE loop.value
    IN  IF logged.raised
        THEN Outcome(store, TRUE, <<"KeyError">>, "raise", <<>>)
        ELSE IF analysis.raised
        THEN Outcome(store, TRUE, analysis.value, "raise", <<>>)
        ELSE IF InList("greeting", intents) /\ initial
        THEN Outcome(store, FALSE, greeting[pick], "greeting", intents)
        ELSE IF intents = <<>>
        THEN Outcome(store, FALSE, fallback[pick], "fallback", intents)
        ELSE IF loop.raised
        THEN Outcome(store, TRUE, loop.value, "raise", intents)
        ELSE Outcome(store, FALSE,
                     IF response # <<>> THEN strip(response) ELSE fallback[pick],
                     "compose", intents)

\* threaded variant: _process_query_thread; resp is what it puts on the queue
process_query_thread(data, sessions, user_id, query, initial_greeting, nlp, now, pick) ==
    LET analysis == analyze_query("threaded", query, nlp)
        intents  == analysis.value.intents
        programs == analysis.value.programs
        loop     == ThreadedLoop(intents, data, sessions, user_id, query,
                                 programs, now)
        response == IF loop.value = <<>> /\ programs # <<>>
                    THEN <<ProgramsPrompt(programs)>>
                    ELSE loop.value
        joined   == JoinNonEmpty(response)
    IN  IF InList("greeting", intents) /\ initial_greeting
        THEN Outcome(sessions, FALSE, greeting[pick], "greeting", intents)
        ELSE IF intents = <<>>
        THEN Outcome(sessions, FALSE, fallback[pick], "fallback", intents)
        ELSE IF loop.raised
        THEN Outcome(sessions, FALSE, ErrorResponse, "error", intents)
        ELSE Outcome(RecordMessage(sessions, user_id, query), FALSE,
                     IF joined # <<>> THEN joined ELSE fallback[pick],
                     "compose", intents)

-----------------------------------------------------------------------------
(* The upload acknowledger *)

allowed_extensions ==
    { <<"p", "d", "f">>, <<"j", "p", "g">>, <<"j", "p", "e", "g">>,
      <<"p", "n", "g">> }

\* filename.rsplit('.', 1)[1], for a filename that contains '.'
SuffixAfterLastDot(filename) ==
    SubSeq(filename, LastIndexOf(filename, ".") + 1, Len(filename))

\* allowed_file with the .lower() forgotten
allowed_file_case_sensitive(filename) ==
    /\ InList(".", filename)
    /\ SuffixAfterLastDot(filename) \in allowed_extensions

allowed_file(filename) ==
    /\ InList(".", filename)
    /\ lower(SuffixAfterLastDot(filename)) \in allowed_extensions

\* an uploaded-file object, or None
NoFile ==
    [present |-> FALSE, name |-> <<>>]

File(name) ==
    [present |-> TRUE, name |-> name]

\* handle_file_upload creating the session before it validates the file
handle_file_upload_creates_first(sessions, user_id, file) ==
    LET created == IF user_id \notin DOMAIN sessions
                   THEN Store(sessions, user_id, NewSession("documents"))
                   ELSE sessions
    IN  IF file.present /\ allowed_file(file.name)
        THEN IF "documents" \in DOMAIN created[user_id]
             THEN Outcome(AppendTo(created, user_id, "documents", file.name),
                          FALSE, UploadedResponse(file.name), "uploaded", <<>>)
             ELSE Outcome(created, TRUE, <<"KeyError">>, "raise", <<>>)
        ELSE Outcome(created, FALSE, InvalidFileResponse, "invalid", <<>>)

\* simple variant: handle_file_upload
handle_file_upload_simple(sessions, user_id, file) ==
    IF file.present /\ allowed_file(file.name)
    THEN LET created == IF user_id \notin DOMAIN sessions
                        THEN Store(sessions, user_id, NewSession("documents"))
                        ELSE sessions
         IN  IF "documents" \in DOMAIN created[user_id]
             THEN Outcome(AppendTo(created, user_id, "documents", file.name),
                          FALSE, UploadedResponse(file.name), "uploaded", <<>>)
             ELSE Outcome(created, TRUE, <<"KeyError">>, "raise", <<>>)
    ELSE Outcome(sessions, FALSE, InvalidFileResponse, "invalid", <<>>)

\* threaded variant: handle_file_upload, with its try/except
handle_file_upload_threaded(sessions, user_id, file) ==
    IF file.present /\ allowed_file(file.name)
    THEN IF user_id \notin DOMAIN sessions
         THEN Outcome(sessions, FALSE, UploadErrorResponse, "error", <<>>)
         ELSE LET session == sessions[user_id]
                  keyed   == IF "documents" \notin DOMAIN session
                             THEN [k \in DOMAIN session \cup {"documents"} |->
                                      IF k = "documents" THEN <<>> ELSE session[k]]
                             ELSE session
              IN  Outcome(AppendTo(Store(sessions, user_id, keyed), user_id,
                                   "documents", file.name),
                          FALSE, UploadedResponse(file.name), "uploaded", <<>>)
    ELSE Outcome(sessions, FALSE, InvalidFileResponse, "invalid", <<>>)

-----------------------------------------------------------------------------
(* Inputs of the operations *)

Users ==
    {"u1", "u2"}

Q_hello ==
    <<"h", "e", "l", "l", "o">>

Q_hi_status ==
    <<"H", "i", " ", "s", "t", "a", "t", "u", "s">>

Q_xyz ==
    <<"x", "y", "z">>

Q_status ==
    <<"s", "t", "a", "t", "u", "s">>

\* "": the empty query
Q_empty ==
    <<>>

\* "PhD": a program keyword and no intent keyword
Q_PhD ==
    <<"P", "h", "D">>

Q_status_contact ==
    <<"s", "t", "a", "t", "u", "s", " ", "c", "o", "n", "t", "a", "c", "t">>

Q_deadline_PhD_status ==
    <<"d", "e", "a", "d", "l", "i", "n", "e", " ", "P", "h", "D", " ", "s", "t", "a", "t", "u", "s">>

Q_deadline_college ==
    <<"d", "e", "a", "d", "l", "i", "n", "e", " ", "c", "o", "l", "l", "e", "g", "e">>

\* "hello undergraduate": a greeting that names two programs
Q_hello_undergraduate ==
    <<"h", "e", "l", "l", "o", " ", "u", "n", "d", "e", "r", "g", "r", "a", "d", "u", "a", "t", "e">>

Queries ==
    {Q_hello, Q_hi_status, Q_xyz, Q_status}

F_t_PDF ==
    <<"t", ".", "P", "D", "F">>

F_a_png ==
    <<"a", ".", "p", "n", "g">>

F_t_docx ==
    <<"t", ".", "d", "o", "c", "x">>

Files ==
    {NoFile, File(F_t_PDF), File(F_a_png), File(F_t_docx)}

\* the file names of the upload examples
F_transcript_PDF ==
    <<"t", "r", "a", "n", "s", "c", "r", "i", "p", "t", ".", "P", "D", "F">>

F_transcript ==
    <<"t", "r", "a", "n", "s", "c", "r", "i", "p", "t">>

F_transcript_docx ==
    <<"t", "r", "a", "n", "s", "c", "r", "i", "p", "t", ".", "d", "o", "c", "x">>

F_a_pdf_docx ==
    <<"a", ".", "p", "d", "f", ".", "d", "o", "c", "x">>

SampleNames ==
    {F_transcript_PDF, F_transcript, F_transcript_docx, F_a_pdf_docx,
     F_t_PDF, F_a_png, F_t_docx,
     <<"x", ".", "j", "p", "g">>, <<"x", ".", "J", "P", "E", "G">>,
     <<"x", ".", "j", "p", "e", "g">>, <<"x", ".", "p", "d", "f", "x">>,
     <<"p", "d", "f">>, <<"x", ".", "p", "d", "f", ".">>}

NameChars ==
    {"a", ".", "p", "d", "f", "P", "n", "g"}

\* every file name of at most MaxNameLen characters over NameChars
ShortNames ==
    UNION {[1..k -> NameChars] : k \in 0..MaxNameLen}

\* "Last date": the two-word keyword of the deadline intent
Q_Last_date ==
    <<"L", "a", "s", "t", " ", "d", "a", "t", "e">>

\* "undergraduate PhD": two program keywords, one inside a longer word
Q_undergraduate_PhD ==
    <<"u", "n", "d", "e", "r", "g", "r", "a", "d", "u", "a", "t", "e", " ", "P", "h", "D">>

\* words of queries: keywords, words that only contain one, halves of
\* two-word keywords
Vocabulary ==
    { <<"d", "e", "a", "d", "l", "i", "n", "e">>,
      <<"d", "e", "a", "d", "l", "i", "n", "e", "s">>,
      <<"L", "a", "s", "t">>,
      <<"d", "a", "t", "e">>,
      <<"f", "e", "e">>,
      <<"u", "p", "l", "o", "a", "d">>,
      <<"g", "o", "o", "d">>,
      <<"m", "o", "r", "n", "i", "n", "g">>,
      <<"H", "i">>,
      <<"u", "n", "d", "e", "r", "g", "r", "a", "d", "u", "a", "t", "e">>,
      <<"P", "h", "D">>,
      <<"p", "r", "o", "g", "r", "a", "m", "s">>,
      <<"f", "i", "n", "a", "n", "c", "i", "a", "l">>,
      <<"a", "i", "d">> }

\* the queries of at most MaxWords words of the vocabulary, single blanks between
WordQueries ==
    {Join(<<" ">>, ws) : ws \in UNION {[1..n -> Vocabulary] : n \in 0..MaxWords}}

\* a value of datetime.now(): 2024-12-10 at 10:00
Now_10h ==
    [ordinal |-> 739230, hour |-> 10]

\* a value of datetime.now(): 2024-12-10 at 00:00
Now_0h ==
    [ordinal |-> 739230, hour |-> 0]

\* indices random.choice can draw from a 3-element pool
Picks ==
    1..3

\* result_queue.get(timeout=5)
TIMEOUT ==
    5

-----------------------------------------------------------------------------
(* The state machine *)

NoCall ==
    [user |-> "", query |-> <<>>, initial_greeting |-> FALSE, before |-> 0,
     nth |-> 0, response |-> <<>>, timed_out |-> FALSE, branch |-> "",
     intents |-> <<>>, programs |-> <<>>, nlp |-> "", hour |-> 0]

NoLast ==
    [op |-> "none", user |-> "", arg |-> <<>>, present |-> FALSE,
     raised |-> FALSE, resp |-> <<>>, branch |-> "", intents |-> <<>>,
     programs |-> <<>>, nlp |-> "", hour |-> 0,
     before |-> 0, nth |-> 0, timed_out |-> FALSE]

\* the environment of the runs of Spec: who calls, with which arguments, and
\* what the file system, the tokenizer and the clock answer
MainEnv ==
    [users      |-> {"u1"},
     queries    |-> Queries,
     files      |-> Files,
     data_files |-> {"absent", "unparseable"},
     nlp        |-> {"ok"},
     nows       |-> {Now_10h},
     max_ops    |-> MaxOps]

\* the environment of the runs of SpecFile: one upload of any file name
FileEnv ==
    [users      |-> {"u1"},
     queries    |-> {},
     files      |-> {File(name) : name \in SampleNames \cup ShortNames},
     data_files |-> {"absent"},
     nlp        |-> {"ok"},
     nows       |-> {Now_10h},
     max_ops    |-> 1]

\* the environment of the runs of SpecPair: two users sharing the chatbot
PairEnv ==
    [users      |-> Users,
     queries    |-> {Q_hello, Q_status},
     files      |-> {File(F_t_PDF), File(F_t_docx)},
     data_files |-> {"absent"},
     nlp        |-> {"ok"},
     nows       |-> {Now_10h},
     max_ops    |-> MaxPairOps]

\* the environment of the runs of SpecClassify: one analyze_query of any
\* query of a few words
ClassifyEnv ==
    [users      |-> {"u1"},
     queries    |-> WordQueries,
     files      |-> {},
     data_files |-> {"absent"},
     nlp        |-> NlpOutcomes,
     nows       |-> {Now_10h},
     max_ops    |-> 1]

\* the environment of the runs of SpecTalk: a short conversation over
\* queries of every branch of get_response, with either knowledge base, a
\* tokenizer that may fail, and two times of the same day
TalkEnv ==
    [users      |-> {"u1"},
     queries    |-> {Q_empty, Q_PhD, Q_hello, Q_status_contact,
                     Q_deadline_PhD_status, Q_deadline_college},
     files      |-> {File(F_t_PDF)},
     data_files |-> {"absent", "valid"},
     nlp        |-> NlpOutcomes,
     nows       |-> {Now_0h, Now_10h},
     max_ops    |-> MaxTalkOps]

\* the environment of the runs of SpecLoad: the constructor meets any
\* admission_data.json, then a short conversation
LoadEnv ==
    [users      |-> {"u1"},
     queries    |-> {Q_hello, Q_status},
     files      |-> {File(F_t_PDF)},
     data_files |-> DataFiles,
     nlp        |-> {"ok"},
     nows       |-> {Now_10h},
     max_ops    |-> MaxTalkOps]

\* the environment of the runs of SpecGreet: a conversation long enough for
\* a greeting that is no longer an initial one
GreetEnv ==
    [users      |-> {"u1"},
     queries    |-> {Q_status, Q_hello, Q_hello_undergraduate},
     files      |-> {File(F_t_PDF)},
     data_files |-> {"absent"},
     nlp        |-> {"ok"},
     nows       |-> {Now_10h},
     max_ops    |-> MaxOps]

\* the environments by name
Environment(name) ==
    CASE name = "main" -> MainEnv
      [] name = "file" -> FileEnv
      [] name = "pair" -> PairEnv
      [] name = "classify" -> ClassifyEnv
      [] name = "talk" -> TalkEnv
      [] name = "load" -> LoadEnv
      [] name = "greet" -> GreetEnv

\* the inputs the current run draws from
Inputs ==
    Environment(env)

\* the state after construction of the chatbot, in the environment named
InitIn(name) ==
    /\ env = name
    /\ variant \in {"simple", "threaded"}
    /\ \E file \in Environment(name).data_files :
           /\ ~load_admission_data(variant, file).raised
           /\ admission_data = load_admission_data(variant, file).value
    /\ user_sessions = NoSessions
    /\ pc = "idle"
    /\ call = NoCall
    /\ thread = "none"
    /\ result_queue = <<>>
    /\ elapsed = 0
    /\ calls = [u \in Users |-> <<>>]
    /\ nOps = 0
    /\ uploads = [u \in Users |-> 0]
    /\ last = NoLast

Init ==
    InitIn("main")

\* simple variant: a whole get_response call
GetResponseSimple(user_id, query) ==
    /\ variant = "simple"
    /\ pc = "idle"
    /\ nOps < Inputs.max_ops
    /\ \E nlp \in Inputs.nlp, now \in Inputs.nows, pick \in Picks :
           LET out == get_response_simple(KnowledgeBase(variant, admission_data), user_sessions,
                                          user_id, query, nlp, now, pick)
           IN  /\ user_sessions' = out.sessions
               /\ last' = [op |-> "get_response", user |-> user_id,
                           arg |-> query, present |-> TRUE,
                           raised |-> out.raised, resp |-> out.resp,
                           branch |-> out.branch, intents |-> out.intents,
                           programs |-> DetectedPrograms(variant, query, nlp),
                           nlp |-> nlp, hour |-> now.hour,
                           before |-> Len(MessagesOf(user_sessions, user_id)),
                           nth |-> Len(calls[user_id]) + 1,
                           timed_out |-> FALSE]
    /\ calls' = [calls EXCEPT ![user_id] = Append(@, query)]
    /\ nOps' = nOps + 1
    /\ UNCHANGED <<uploads, env, variant, admission_data, pc, call, thread, result_queue, elapsed>>

\* threaded variant: get_response up to processing_thread.start()
GetResponseStart(user_id, query) ==
    /\ variant = "threaded"
    /\ pc = "idle"
    /\ nOps < Inputs.max_ops
    /\ user_sessions' = EnsureSession(user_sessions, user_id)
    /\ call' = [NoCall EXCEPT
                   !.user = user_id,
                   !.query = query,
                   !.initial_greeting = ThreadedInitialGreeting(user_sessions', user_id),
                   !.before = Len(user_sessions'[user_id]["messages"]),
                   !.nth = Len(calls[user_id]) + 1]
    /\ thread' = "running"
    /\ result_queue' = <<>>
    /\ elapsed' = 0
    /\ pc' = "waiting"
    /\ calls' = [calls EXCEPT ![user_id] = Append(@, query)]
    /\ nOps' = nOps + 1
    /\ last' = NoLast
    /\ UNCHANGED <<uploads, env, variant, admission_data>>

\* the background unit leaving without a result when the pipeline faults
ThreadPuts_none_on_fault(out) ==
    IF out.branch = "error" THEN <<>> ELSE <<out.resp>>

\* threaded variant: the items _process_query_thread places on result_queue,
\* one result_queue.put on each of its four paths
ThreadPuts(out) ==
    <<out.resp>>

\* threaded variant: the background unit runs _process_query_thread
ProcessQueryThread ==
    /\ thread = "running"
    /\ \E nlp \in Inputs.nlp, now \in Inputs.nows, pick \in Picks :
           LET out == process_query_thread(
                          KnowledgeBase(variant, admission_data),
                          user_sessions, call.user, call.query, call.initial_greeting,
                          nlp, now, pick)
           IN  /\ user_sessions' = out.sessions
               /\ result_queue' = result_queue \o ThreadPuts(out)
               /\ call' = [call EXCEPT !.branch = out.branch,
                                       !.intents = out.intents,
                                       !.programs = DetectedPrograms(variant, call.query, nlp),
                                       !.nlp = nlp,
                                       !.hour = now.hour]
    /\ thread' = "done"
    /\ UNCHANGED <<uploads, env, variant, admission_data, pc, elapsed, calls, nOps, last>>

\* a second passes while the caller is blocked
Tick ==
    /\ \/ pc = "waiting" /\ result_queue = <<>> /\ elapsed < TIMEOUT
       \/ pc = "joining" /\ thread = "running" /\ elapsed < TIMEOUT + MaxLate
    /\ elapsed' = elapsed + 1
    /\ UNCHANGED <<uploads, env, variant, admission_data, user_sessions, pc, call, thread,
                   result_queue, calls, nOps, last>>

\* the record of a get_response of the threaded variant that returns resp
Returning(resp) ==
    [op |-> "get_response", user |-> call.user, arg |-> call.query,
     present |-> TRUE, raised |-> FALSE, resp |-> resp,
     branch |-> call.branch, intents |-> call.intents,
     programs |-> call.programs, nlp |-> call.nlp, hour |-> call.hour,
     before |-> call.before, nth |-> call.nth, timed_out |-> call.timed_out]

\* threaded variant: result_queue.get(timeout=5) returns an item, and
\* get_response returns it
QueueGet ==
    /\ pc = "waiting"
    /\ result_queue # <<>>
    /\ last' = Returning(Head(result_queue))
    /\ result_queue' = Tail(result_queue)
    /\ pc' = "idle"
    /\ thread' = "none"
    /\ call' = NoCall
    /\ elapsed' = 0
    /\ UNCHANGED <<uploads, env, variant, admission_data, user_sessions, calls, nOps>>

\* threaded variant: result_queue.get raises queue.Empty after 5 seconds
QueueEmpty ==
    /\ pc = "waiting"
    /\ result_queue = <<>>
    /\ elapsed = TIMEOUT
    /\ \E pick \in Picks :
           call' = [call EXCEPT !.response = timeout[pick], !.timed_out = TRUE]
    /\ pc' = "joining"
    /\ UNCHANGED <<uploads, env, variant, admission_data, user_sessions, thread,
                   result_queue, elapsed, calls, nOps, last>>

\* the response get_response returns once processing_thread.join() is over
AfterJoin(response, queue) ==
    IF queue # <<>> THEN Head(queue) ELSE response

\* threaded variant: processing_thread.join() returns, then get_response
JoinAndReturn ==
    /\ pc = "joining"
    /\ thread = "done"
    /\ last' = Returning(AfterJoin(call.response, result_queue))
    /\ result_queue' = IF result_queue # <<>> THEN Tail(result_queue) ELSE <<>>
    /\ pc' = "idle"
    /\ thread' = "none"
    /\ call' = NoCall
    /\ elapsed' = 0
    /\ UNCHANGED <<uploads, env, variant, admission_data, user_sessions, calls, nOps>>

\* handle_file_upload of either variant
HandleFileUpload(user_id, file) ==
    /\ pc = "idle"
    /\ nOps < Inputs.max_ops
    /\ LET out == IF variant = "simple"
                  THEN handle_file_upload_simple(user_sessions, user_id, file)
                  ELSE handle_file_upload_threaded(user_sessions, user_id, file)
       IN  /\ user_sessions' = out.sessions
           /\ last' = [op |-> "handle_file_upload", user |-> user_id,
                       arg |-> file.name, present |-> file.present,
                       raised |-> out.raised, resp |-> out.resp,
                       branch |-> out.branch, intents |-> <<>>,
                       programs |-> <<>>, nlp |-> "", hour |-> 0,
                       before |-> Len(DocumentsOf(user_sessions, user_id)),
                       nth |-> 0, timed_out |-> FALSE]
           /\ uploads' = IF out.branch = "uploaded"
                         THEN [uploads EXCEPT ![user_id] = @ + 1]
                         ELSE uploads
    /\ nOps' = nOps + 1
    /\ UNCHANGED <<env, variant, admission_data, pc, call, thread, result_queue,
                   elapsed, calls>>

Next ==
    \/ \E user_id \in Inputs.users, query \in Inputs.queries : GetResponseSimple(user_id, query)
    \/ \E user_id \in Inputs.users, query \in Inputs.queries : GetResponseStart(user_id, query)
    \/ ProcessQueryThread
    \/ Tick
    \/ QueueGet
    \/ QueueEmpty
    \/ JoinAndReturn
    \/ \E user_id \in Inputs.users, file \in Inputs.files : HandleFileUpload(user_id, file)

Spec ==
    Init /\ [][Next]_vars

\* the runs in which two users call the same chatbot
InitPair ==
    InitIn("pair")

SpecPair ==
    InitPair /\ [][Next]_vars

\* the runs that validate one file name
InitFile ==
    InitIn("file")

NextFile ==
    /\ nOps < Inputs.max_ops
    /\ \E user_id \in Inputs.users, file \in Inputs.files :
           HandleFileUpload(user_id, file)

SpecFile ==
    InitFile /\ [][NextFile]_vars

\* the runs of a short conversation over every branch of get_response
InitTalk ==
    InitIn("talk")

SpecTalk ==
    InitTalk /\ [][Next]_vars

\* the constructor: self.admission_data = self.load_admission_data(); an
\* exception of the loader leaves no chatbot
Construct(file) ==
    /\ pc = "constructing"
    /\ LET out == load_admission_data(variant, file)
       IN  /\ admission_data' = IF out.raised THEN admission_data ELSE out.value
           /\ pc' = IF out.raised THEN "failed" ELSE "idle"
           /\ last' = [NoLast EXCEPT
                           !.op = "load_admission_data",
                           !.arg = <<file>>,
                           !.present = TRUE,
                           !.raised = out.raised,
                           !.resp = IF out.raised THEN <<out.value>> ELSE <<>>]
    /\ UNCHANGED <<uploads, env, variant, user_sessions, call, thread,
                   result_queue, elapsed, calls, nOps>>

\* the runs that start before the constructor has loaded the knowledge base
InitLoad ==
    /\ env = "load"
    /\ variant \in {"simple", "threaded"}
    /\ admission_data = "none"
    /\ user_sessions = NoSessions
    /\ pc = "constructing"
    /\ call = NoCall
    /\ thread = "none"
    /\ result_queue = <<>>
    /\ elapsed = 0
    /\ calls = [u \in Users |-> <<>>]
    /\ nOps = 0
    /\ uploads = [u \in Users |-> 0]
    /\ last = NoLast

NextLoad ==
    \/ \E file \in Inputs.data_files : Construct(file)
    \/ Next

SpecLoad ==
    InitLoad /\ [][NextLoad]_vars

\* the runs of a conversation that outlasts the initial greetings
InitGreet ==
    InitIn("greet")

SpecGreet ==
    InitGreet /\ [][Next]_vars

\* a call of analyze_query on its own
AnalyzeQuery(query, nlp) ==
    /\ pc = "idle"
    /\ LET analysis == analyze_query(variant, query, nlp)
       IN  last' = [NoLast EXCEPT
                       !.op = "analyze_query",
                       !.arg = query,
                       !.present = TRUE,
                       !.nlp = nlp,
                       !.raised = analysis.raised,
                       !.intents = IF analysis.raised THEN <<>>
                                   ELSE analysis.value.intents,
                       !.programs = IF analysis.raised THEN <<>>
                                    ELSE analysis.value.programs]
    /\ nOps' = nOps + 1
    /\ UNCHANGED <<uploads, env, variant, admission_data, user_sessions, pc, call,
                   thread, result_queue, elapsed, calls>>

\* the runs that classify one query
InitClassify ==
    InitIn("classify")

NextClassify ==
    /\ nOps < Inputs.max_ops
    /\ \E query \in Inputs.queries, nlp \in Inputs.nlp : AnalyzeQuery(query, nlp)

SpecClassify ==
    InitClassify /\ [][NextClassify]_vars

-----------------------------------------------------------------------------
(* Properties of the session store and of the greeting rule *)

\* the last operation is a get_response that has returned or raised
AnsweredQuery ==
    pc = "idle" /\ last.op = "get_response"

\* the last operation is a handle_file_upload
Uploaded ==
    pc = "idle" /\ last.op = "handle_file_upload"

\* C1: whenever no call is in progress, the messages list of every user is
\* the sequence of the queries of that user's get_response calls, in call
\* order: each call has appended its query exactly once.
C1_MessagesAreTheCalls ==
    pc = "idle" =>
        \A u \in Users : MessagesOf(user_sessions, u) = calls[u]

\* C2: a user's 4th or later get_response call never takes the greeting
\* short-circuit.
C2_NoGreetingFromFourthCall ==
    (AnsweredQuery /\ last.nth >= 4) =>
        (last.branch # "greeting" /\ last.resp \notin Pool(greeting))

\* C3: a get_response call that returns takes the greeting short-circuit
\* (answers from the greeting pool) if and only if the intents of its query
\* include greeting and at most 2 messages were recorded for the user
\* before the call.
C3_GreetingIffAtMostTwoBefore ==
    (AnsweredQuery /\ ~last.raised) =>
        ((last.branch = "greeting" /\ last.resp \in Pool(greeting))
            <=> (InList("greeting", Classify(last.arg).intents)
                    /\ last.before <= 2))

-----------------------------------------------------------------------------
(* Properties of the bounded wait of the threaded variant *)

\* C4: a get_response whose 5-second wait expired before the background
\* unit produced its result returns a member of the timeout pool, and not
\* the answer the background unit produces later.
C4_TimedOutCallReturnsPlaceholder ==
    (AnsweredQuery /\ last.timed_out) => last.resp \in Pool(timeout)

\* C5: the caller of get_response is never blocked for longer than the
\* 5-second bound, however long the background unit takes.
C5_CallerBlockedAtMostTheBound ==
    pc \in {"waiting", "joining"} => elapsed <= TIMEOUT

\* C6: when a get_response whose background unit was delayed beyond the
\* bound has returned (the unit has then finished), the messages list of
\* the user has exactly one entry for the call: the list is one longer than
\* before the call and ends with the call's query.
C6_TimedOutCallRecordedOnce ==
    (AnsweredQuery /\ last.timed_out) =>
        LET messages == MessagesOf(user_sessions, last.user)
        IN  /\ Len(messages) = last.before + 1
            /\ messages[Len(messages)] = last.arg

-----------------------------------------------------------------------------
(* Properties of the boundary functions and of the upload acknowledger *)

\* C7: get_response and handle_file_upload never raise to their caller.
C7_NeverRaises ==
    ~last.raised

\* a step that is a whole handle_file_upload call
UploadStep ==
    nOps' = nOps + 1 /\ last'.op = "handle_file_upload"

\* C8: handle_file_upload with a file name that passes validation appends
\* the name to the end of the user's documents list (creating the session
\* when the user has none) and returns the confirmation with the name.
C8_ValidUploadAppends ==
    [][(UploadStep /\ last'.present /\ allowed_file(last'.arg)) =>
          /\ ~last'.raised
          /\ last'.resp = UploadedResponse(last'.arg)
          /\ last'.user \in DOMAIN user_sessions'
          /\ DocumentsOf(user_sessions', last'.user)
                 = Append(DocumentsOf(user_sessions, last'.user), last'.arg)]_vars

\* the acceptance rule as the specification words it: the name has a '.',
\* and the text after its last '.', lower-cased, is pdf, jpg, jpeg or png
AcceptedBySpec(name) ==
    \E i \in 1..Len(name) :
        /\ name[i] = "."
        /\ \A j \in (i + 1)..Len(name) : name[j] # "."
        /\ lower(SubSeq(name, i + 1, Len(name)))
               \in {<<"p", "d", "f">>, <<"j", "p", "g">>,
                    <<"j", "p", "e", "g">>, <<"p", "n", "g">>}

\* C9: upload validation accepts a file name (does not answer with the
\* invalid-file-type text) if and only if the name contains a '.' and the
\* text after its last '.', compared case-insensitively, is one of pdf,
\* jpg, jpeg, png.
C9_AcceptedIffAllowedSuffix ==
    (Uploaded /\ last.present) =>
        ((last.resp # InvalidFileResponse) <=> AcceptedBySpec(last.arg))

\* C9 witness: "transcript.PDF" has been uploaded and was accepted, and
\* the examples without an allowed last suffix are in the input set.
C9_Witness ==
    /\ Uploaded
    /\ last.arg = F_transcript_PDF
    /\ last.resp # InvalidFileResponse
    /\ {File(F_transcript), File(F_transcript_docx), File(F_a_pdf_docx)}
           \subseteq Inputs.files

\* C10: handle_file_upload with a file name that fails validation returns
\* the fixed invalid-file-type text, does not raise, and leaves the whole
\* session store unchanged.
C10_InvalidUploadChangesNothing ==
    [][(UploadStep /\ last'.present /\ ~allowed_file(last'.arg)) =>
          /\ ~last'.raised
          /\ last'.resp = InvalidFileResponse
          /\ user_sessions' = user_sessions]_vars

\* C10 witness: an invalid file name was refused for a user without a
\* session while another user has one, and the store still holds only the
\* other user's session.
C10_Witness ==
    /\ Uploaded
    /\ last.present
    /\ ~allowed_file(last.arg)
    /\ last.resp = InvalidFileResponse
    /\ last.user \notin DOMAIN user_sessions
    /\ user_sessions # NoSessions

-----------------------------------------------------------------------------
(* Properties of the classifier *)

\* analyze_query has returned an analysis computed from the tokens
Analyzed ==
    last.op = "analyze_query" /\ last.nlp = "ok" /\ ~last.raised

\* the keywords of a list that are a single word
SingleWords(keywords) ==
    SelectSeq(keywords, LAMBDA k : ~InList(" ", k))

\* C11: analyze_query reports an intent, among the 8, exactly when some
\* token of the lower-cased query equals a single-word keyword of the intent;
\* a token that only contains a keyword, and the two-word keywords, never
\* trigger an intent
C11_IntentIffTokenEqualsKeyword ==
    Analyzed =>
        /\ Len(intent_keywords) = 8
        /\ \A e \in 1..Len(intent_keywords) :
               InList(intent_keywords[e].intent, last.intents)
               <=> \E i \in 1..Len(Tokenize(lower(last.arg))) :
                       InList(Tokenize(lower(last.arg))[i],
                              SingleWords(intent_keywords[e].keywords))

\* "Last date" analysed: its two tokens are not keywords, nothing is reported
C11_Witness ==
    /\ Analyzed
    /\ last.arg = Q_Last_date
    /\ Contains(lower(last.arg), deadline_keywords[4])
    /\ last.intents = <<>>

\* the position of a program in the order of program_types
ProgramRank(program) ==
    CHOOSE r \in 1..Len(program_types) : program_types[r].program = program

\* C12: analyze_query reports a program, among the 4, exactly when one of
\* its keywords is a substring of the lower-cased query; each program is
\* reported once, in the order undergraduate, graduate, phd, scholarship
C12_ProgramIffKeywordSubstring ==
    Analyzed =>
        /\ [r \in 1..Len(program_types) |-> program_types[r].program]
               = <<"undergraduate", "graduate", "phd", "scholarship">>
        /\ \A r \in 1..Len(program_types) :
               InList(program_types[r].program, last.programs)
               <=> \E k \in 1..Len(program_types[r].keywords) :
                       Contains(lower(last.arg), program_types[r].keywords[k])
        /\ \A i, j \in 1..Len(last.programs) :
               i < j => ProgramRank(last.programs[i]) < ProgramRank(last.programs[j])

\* "undergraduate PhD" analysed: graduate is reported too, inside the longer word
C12_Witness ==
    /\ Analyzed
    /\ last.arg = Q_undergraduate_PhD
    /\ last.programs = <<"undergraduate", "graduate", "phd">>

-----------------------------------------------------------------------------
(* Properties of the response pipeline *)

\* the classification of the answered query yields no intents
NoIntents ==
    last.nlp = "error" \/ Classify(last.arg).intents = <<>>

\* C13: when the classification of the query yields no intents (also when
\* the tokenizer fails), get_response returns a member of the fallback pool
\* from the fallback short-circuit, whatever programs the query names
C13_NoIntentsGivesFallback ==
    (AnsweredQuery /\ NoIntents) =>
        /\ ~last.raised
        /\ last.branch = "fallback"
        /\ last.resp \in Pool(fallback)

\* the get_response answered last got past the short-circuits, to COMPOSE
ReachedCompose ==
    /\ AnsweredQuery
    /\ last.intents # <<>>
    /\ last.branch \in {"compose", "error", "raise"}

\* the clock reading of the get_response answered last
NowOfLast ==
    [Now_10h EXCEPT !.hour = last.hour]

\* what the handler of an intent computes for the get_response answered last
HandlerOutput(intent) ==
    LET data == KnowledgeBase(variant, admission_data)
    IN  CASE intent = "deadline"  -> deadline_body(data, last.programs, NowOfLast)
          [] intent = "documents" -> documents_body(data, last.programs)
          [] intent = "fees"      -> fees_body(data, last.programs)
          [] intent = "status"    -> status_body(user_sessions, last.user)
          [] intent = "help"      -> help_body(variant, data, last.arg)
          [] intent = "upload"    -> upload_body(variant)
          [] intent = "contact"   -> contact_body(data)
          [] OTHER                -> Returned(<<>>)

\* the handler outputs of the detected intents, in detection order
HandlerOutputs ==
    [i \in 1..Len(last.intents) |-> HandlerOutput(last.intents[i]).value]

\* no handler of a detected intent fails
AllHandlersReturn ==
    \A i \in 1..Len(last.intents) : ~HandlerOutput(last.intents[i]).raised

\* C14: when get_response reaches COMPOSE and no handler fails, the response
\* is the non-empty outputs of the handlers of all detected intents, in
\* detection order, separated by a blank line: upload gives the upload help,
\* contact the faqs.contact text, status the status text
C14_ComposeJoinsHandlerOutputs ==
    (ReachedCompose /\ AllHandlersReturn /\ JoinNonEmpty(HandlerOutputs) # <<>>) =>
        /\ ~last.raised
        /\ last.resp = JoinNonEmpty(HandlerOutputs)

\* C15: when the computation of one handler fails during COMPOSE, the call
\* still returns, its response is not the generic top-level apology, and
\* the outputs of the handlers that did not fail appear in it unchanged
C15_HandlerFailureIsLocal ==
    (ReachedCompose /\ ~AllHandlersReturn) =>
        /\ ~last.raised
        /\ last.resp # ErrorResponse
        /\ \A i \in 1..Len(last.intents) :
               ~HandlerOutput(last.intents[i]).raised
               => Contains(last.resp, HandlerOutput(last.intents[i]).value)

\* the deadline handler alone answered, about one program with a dated deadline
DeadlineOfOneProgram ==
    /\ ReachedCompose
    /\ ~last.raised
    /\ last.intents = <<"deadline">>
    /\ Len(last.programs) = 1
    /\ last.programs[1] \in DOMAIN KnowledgeBase(variant, admission_data).deadlines
    /\ Parses(KnowledgeBase(variant, admission_data).deadlines[last.programs[1]])

\* C16: the days_left the deadline handler reports is the calendar-day
\* difference between the deadline date and today's date at every hour of
\* the day: 5 for the deadline 2024-12-15 on 2024-12-10
C16_DaysLeftIsCalendarDifference ==
    DeadlineOfOneProgram =>
        LET deadline == Calendar[KnowledgeBase(variant, admission_data)
                                     .deadlines[last.programs[1]]]
        IN  last.resp = <<"The application deadline for ", last.programs[1],
                          " program is ", deadline.text, ". ", "That's ",
                          ToString(deadline.ordinal - NowOfLast.ordinal),
                          " days from today.">>

-----------------------------------------------------------------------------
(* Properties of the knowledge-base loader *)

\* C17: load_admission_data never raises to its caller, and it returns the
\* built-in default knowledge base when admission_data.json is absent,
\* unreadable or not parseable as JSON
C17_LoadNeverRaises ==
    last.op = "load_admission_data" =>
        /\ ~last.raised
        /\ last.arg \in {<<"absent">>, <<"unreadable">>, <<"unparseable">>}
               => admission_data = "default_data"

-----------------------------------------------------------------------------
(* Properties of the growth of the session store *)

IsPrefix(a, b) ==
    Len(a) <= Len(b) /\ SubSeq(b, 1, Len(a)) = a

\* C18: no step removes a session or a list of a session, and every step
\* leaves each messages list and each documents list a prefix of its new
\* value: the lists only grow by appending at the end
C18_SessionsOnlyGrow ==
    [][\A u \in DOMAIN user_sessions :
           /\ u \in DOMAIN user_sessions'
           /\ DOMAIN user_sessions[u] \subseteq DOMAIN user_sessions'[u]
           /\ IsPrefix(MessagesOf(user_sessions, u), MessagesOf(user_sessions', u))
           /\ IsPrefix(DocumentsOf(user_sessions, u), DocumentsOf(user_sessions', u))]_vars

\* a session that has grown at both lists: two messages and a document
C18_Witness ==
    \E u \in DOMAIN user_sessions :
        /\ Len(MessagesOf(user_sessions, u)) >= 2
        /\ Len(DocumentsOf(user_sessions, u)) >= 1

-----------------------------------------------------------------------------
(* Properties of the background unit of the threaded variant *)

\* C19: no step cancels a running background unit: it stays running until
\* it is done, also after the caller's wait has timed out; the step that
\* finishes it places exactly one result on its empty result queue, on the
\* greeting, fallback, composition and fault paths alike; no other step
\* places a result; and get_response returns only once the unit is done
C19_UnitPutsExactlyOneResult ==
    [][/\ thread = "running" => thread' \in {"running", "done"}
       /\ (thread = "running" /\ thread' = "done")
              => Len(result_queue) = 0 /\ Len(result_queue') = 1
       /\ thread' = thread => Len(result_queue') <= Len(result_queue)
       /\ (pc # "idle" /\ pc' = "idle") => thread = "done"]_vars

\* the unit has finished on the fault path after the caller's wait timed out,
\* with its one result on the queue
C19_Witness ==
    /\ variant = "threaded"
    /\ pc = "joining"
    /\ call.timed_out
    /\ thread = "done"
    /\ call.branch = "error"
    /\ result_queue = <<ErrorResponse>>

-----------------------------------------------------------------------------
(* Properties of the status handler *)

\* the get_response answered last composed its response with the status handler
StatusAnswered ==
    /\ AnsweredQuery
    /\ last.branch = "compose"
    /\ InList("status", last.intents)

\* the text the status handler owes a user, by the uploads acknowledged so far
StatusReport(u) ==
    IF uploads[u] >= 1
    THEN <<"Your application is being processed. We've received ",
           ToString(uploads[u]), " documents from you.">>
    ELSE <<"Your application is currently under review. We'll notify you when there's an update.">>

\* C20: after any sequence of operations the status handler, for every user
\* (also one without a session), does not fail and yields "received N
\* documents" with N the number of uploads of that user acknowledged so far
\* when N >= 1, and the "under review" message when there is none, never a
\* count of 0; and a response composed with the status handler reports
\* that text
C20_StatusReportsUploadCount ==
    /\ pc = "idle" =>
           \A u \in Users : status_body(user_sessions, u) = Returned(StatusReport(u))
    /\ StatusAnswered =>
           ~last.raised /\ Contains(last.resp, StatusReport(last.user))

\* a status query answered after two acknowledged uploads of the user
C20_Witness ==
    /\ StatusAnswered
    /\ uploads[last.user] = 2
    /\ Len(DocumentsOf(user_sessions, last.user)) = 2

-----------------------------------------------------------------------------
(* Properties of the empty composition *)

\* the get_response answered last reached COMPOSE with greeting as its only
\* intent, so that no handler contributed text
EmptyCompose ==
    ReachedCompose /\ last.intents = <<"greeting">>

\* C21: when COMPOSE produces empty text (greeting is the only intent and
\* the call is not an initial greeting), get_response returns the "I can
\* help with information about <programs joined by ', '> programs" prompt
\* if a program was detected and a member of the fallback pool if none
\* was; it never returns the empty string
C21_EmptyComposeGivesPromptOrFallback ==
    EmptyCompose =>
        /\ ~last.raised
        /\ last.resp # <<>>
        /\ IF last.programs # <<>>
           THEN last.resp =
                    <<"I can help with information about ">>
                    \o Join(<<", ">>, [i \in 1..Len(last.programs) |->
                                          <<last.programs[i]>>])
                    \o <<" programs. ",
                         "Would you like to know about deadlines, required documents, or fees?">>
           ELSE last.resp \in Pool(fallback)

\* "hello undergraduate" answered past the initial greetings: two programs
\* in the prompt
C21_Witness ==
    /\ EmptyCompose
    /\ last.arg = Q_hello_undergraduate
    /\ last.programs = <<"undergraduate", "graduate">>
    /\ ~last.raised

-----------------------------------------------------------------------------
(* Properties of the vocabularies of the classifier *)

\* the fixed scan order of the intents
IntentOrder ==
    <<"deadline", "documents", "fees", "status", "help", "greeting",
      "upload", "contact">>

\* the position of a tag in a list without repetition
RankIn(tag, order) ==
    CHOOSE r \in 1..Len(order) : order[r] = tag

\* analyze_query has returned, with or without a working tokenizer
AnalysisReturned ==
    last.op = "analyze_query" /\ ~last.raised

\* C22: the intents analyze_query returns are tags of the 8-intent
\* vocabulary, each at most once and in the fixed scan order; intents are
\* detected independently, the token "upload" giving both documents and
\* upload; the programs are tags of the 4-program vocabulary
C22_ClosedOrderedVocabularies ==
    AnalysisReturned =>
        /\ \A i \in 1..Len(last.intents) : InList(last.intents[i], IntentOrder)
        /\ \A i, j \in 1..Len(last.intents) :
               i < j => RankIn(last.intents[i], IntentOrder)
                            < RankIn(last.intents[j], IntentOrder)
        /\ (last.nlp = "ok"
              /\ InList(<<"u", "p", "l", "o", "a", "d">>, Tokenize(lower(last.arg))))
               => InList("documents", last.intents) /\ InList("upload", last.intents)
        /\ \A i \in 1..Len(last.programs) :
               last.programs[i] \in {"undergraduate", "graduate", "phd", "scholarship"}

\* "upload fee" analysed: three intents from two tokens, in scan order
C22_Witness ==
    /\ AnalysisReturned
    /\ last.arg = <<"u", "p", "l", "o", "a", "d", " ", "f", "e", "e">>
    /\ last.intents = <<"documents", "fees", "upload">>

-----------------------------------------------------------------------------
(* Properties of the shape and the frame of the session store *)

\* C23: in every reachable state, every session record of the store has a
\* messages list, also when the first operation of its user is an upload
C23_EverySessionHasMessages ==
    \A u \in DOMAIN user_sessions : "messages" \in DOMAIN user_sessions[u]

\* the session of a user is the same before and after the step
SessionUnchanged(u) ==
    /\ (u \in DOMAIN user_sessions) = (u \in DOMAIN user_sessions')
    /\ u \in DOMAIN user_sessions => user_sessions'[u] = user_sessions[u]

\* the list under a key of the session of a user is the same before and
\* after the step, absent or present
ListUnchanged(u, key) ==
    LET Has(sessions) == u \in DOMAIN sessions /\ key \in DOMAIN sessions[u]
    IN  /\ Has(user_sessions) = Has(user_sessions')
        /\ Has(user_sessions) => user_sessions'[u][key] = user_sessions[u][key]

\* the user of the operation the step belongs to
Actor ==
    IF pc # "idle" THEN call.user
    ELSE IF pc' # "idle" THEN call'.user
    ELSE last'.user

\* C24: every step of an operation for user u leaves the session of every
\* other user unchanged; a step of get_response leaves the documents list
\* of u unchanged; a step of handle_file_upload leaves the messages list of
\* u unchanged; and no step changes the loaded knowledge base
C24_FrameOfTheOperations ==
    [][/\ \A u \in Users : u # Actor => SessionUnchanged(u)
       /\ ~UploadStep => \A u \in Users : ListUnchanged(u, "documents")
       /\ UploadStep => \A u \in Users : ListUnchanged(u, "messages")
       /\ admission_data' = admission_data]_vars

\* two users with sessions of their own: one has a message and no
\* document, the other has a document
C24_Witness ==
    \E u, w \in DOMAIN user_sessions :
        /\ u # w
        /\ Len(MessagesOf(user_sessions, u)) >= 1
        /\ DocumentsOf(user_sessions, u) = <<>>
        /\ Len(DocumentsOf(user_sessions, w)) >= 1

====
